---------------------------- MODULE Spec2Model ----------------------------
(***************************************************************************)
(* Model of curves/main.cpp: the Curve hierarchy (Circle, Ellipse, Helix), *)
(* and main(): build the collection, report every curve, filter the        *)
(* Circles into a vector of pointers, std::sort it by radius, sum the      *)
(* radii inside an OpenMP parallel region with 4 threads, print the sum.   *)
(*                                                                         *)
(* Reals are modelled by small integers (sums of small integers are exact  *)
(* in double, so no rounding is abstracted away for the modelled inputs).  *)
(* A pointer into the collection is modelled by the 0-based position of    *)
(* the pointee in `curves`.                                                *)
(***************************************************************************)
EXTENDS Integers, Sequences, FiniteSets

\* ------------------------------------------------------------- bounds
\* The collection holds `size` curves (main.cpp:115 fixes it to 10); the
\* model lets size range over 0..MaxSize.
MaxSize == 5
\* Parameters of the curves whose radius() is probed in SpecRadius.
MaxParam == 3

\* main.cpp:164
num_threads == 4

Workers == 0 .. (num_threads - 1)

\* ------------------------------------------------------------- curves
Circle(radius) == [kind |-> "Circle", radius_ |-> radius]
Ellipse(radius_x, radius_y) ==
    [kind |-> "Ellipse", radius_x_ |-> radius_x, radius_y_ |-> radius_y]
Helix(radius, step) == [kind |-> "Helix", radius_ |-> radius, step_ |-> step]

\* std::max(a, b): returns a unless a < b
Max(a, b) == IF a < b THEN b ELSE a

\* Ellipse::radius written with min instead of max
radiusMin(c) ==
    CASE c.kind = "Circle"  -> c.radius_
      [] c.kind = "Ellipse" -> IF c.radius_x_ < c.radius_y_ THEN c.radius_x_
                                                            ELSE c.radius_y_
      [] c.kind = "Helix"   -> c.radius_

\* virtual double radius() const, dispatched on the runtime type
radius(c) ==
    CASE c.kind = "Circle"  -> c.radius_
      [] c.kind = "Ellipse" -> Max(c.radius_x_, c.radius_y_)
      [] c.kind = "Helix"   -> c.radius_

\* dynamic_cast to the base class: succeeds for every curve
IsCurve(c) == c.kind \in {"Circle", "Ellipse", "Helix"}

\* dynamic_cast<Circle*>(curve.get()) != nullptr
IsCircle(c) == c.kind = "Circle"

\* The curves the builder draws from (radius_dist, step_dist reduced to a
\* few values): two Circles of different radius, an Ellipse and a Helix
\* whose radius() equals a Circle's.
BuildChoices == {Circle(1), Circle(2), Ellipse(1, 2), Helix(1, 2)}

\* The curves radius() is probed on.
Params == (-1) .. MaxParam
ProbeCurves ==
    {Circle(r) : r \in Params}
      \cup {Ellipse(rx, ry) : rx \in Params, ry \in Params}
      \cup {Helix(r, s) : r \in Params, s \in Params}

\* ------------------------------------------------------------- state
VARIABLES
    pc,          \* the statement main() is at
    size,        \* const int size (main.cpp:115)
    curves,      \* std::vector<std::unique_ptr<Curve>> curves
    k,           \* position of the running sequential loop (builder, reporter, filter)
    out,         \* what has been written to std::cout, in order
    circles,     \* std::vector<Circle*> circles: positions in `curves`
    radius_sum,  \* double radius_sum, shared by the team
    wpc,         \* per thread: where it is in the parallel region
    wi,          \* per thread: its private copy of the loop variable i
    reg,         \* per thread: the value of radius_sum it loaded for +=
    visits,      \* per index of `circles`: the threads that ran the loop body on it
    exit_code,   \* <<>> until main returns, then <<code>>
    rcurve,      \* SpecRadius: the curve radius() is called on
    rvalue       \* SpecRadius: <<>> until called, then <<result>>

vars == <<pc, size, curves, k, out, circles, radius_sum, wpc, wi, reg,
          visits, exit_code, rcurve, rvalue>>

mainVars == <<pc, size, curves, k, out, circles, radius_sum, wpc, wi, reg,
              visits, exit_code>>

\* 0-based element access, as operator[] of std::vector
At(s, i) == s[i + 1]

\* ------------------------------------------------------------- std::sort
\* the comparator written with > (descending order)
Greater(a, b) == radius(At(curves, a)) > radius(At(curves, b))

\* the comparator written with <= (not a strict order)
LessEq(a, b) == radius(At(curves, a)) <= radius(At(curves, b))

\* [](const Circle* a, const Circle* b) { return a->radius() < b->radius(); }
Less(a, b) == radius(At(curves, a)) < radius(At(curves, b))

Front(s) == SubSeq(s, 1, Len(s) - 1)
Last(s) == s[Len(s)]

\* std::__unguarded_linear_insert: shift val left past every element it
\* compares less than, starting from the right end of the sorted prefix
RECURSIVE UnguardedLinearInsert(_, _)
UnguardedLinearInsert(s, val) ==
    IF s # <<>> /\ Less(val, Last(s))
    THEN UnguardedLinearInsert(Front(s), val) \o <<Last(s)>>
    ELSE s \o <<val>>

\* std::__insertion_sort, the whole of std::sort for ranges of at most 16
\* elements (size is 10): each element in turn goes to the front when it
\* compares less than the first, else is linearly inserted
RECURSIVE InsertionSort(_, _)
InsertionSort(sorted, rest) ==
    IF rest = <<>> THEN sorted
    ELSE IF sorted # <<>> /\ Less(Head(rest), Head(sorted))
         THEN InsertionSort(<<Head(rest)>> \o sorted, Tail(rest))
         ELSE InsertionSort(UnguardedLinearInsert(sorted, Head(rest)), Tail(rest))

\* std::sort(circles.begin(), circles.end(), comp)
StdSort(s) == InsertionSort(<<>>, s)

\* ------------------------------------------------------------- omp for
\* the static schedule without the remainder offset
ChunkStartNoRemainder(w, n) == (n \div num_threads) * w

\* First iteration of thread w under the static schedule of `omp for` over
\* n iterations: the first n % num_threads threads get one iteration more.
ChunkStart(w, n) ==
    LET q == n \div num_threads
        t == n % num_threads
    IN  IF w < t THEN (q + 1) * w ELSE q * w + t

\* One past the last iteration of thread w.
ChunkEnd(w, n) ==
    LET q == n \div num_threads
        t == n % num_threads
    IN  ChunkStart(w, n) + (IF w < t THEN q + 1 ELSE q)

\* a barrier placed in the loop body: released only by threads that ran it
AllArrivedInLoop ==
    \A w \in Workers : wpc[w] = "barrier" /\ wi[w] > ChunkStart(w, Len(circles))

\* The implicit barrier closing `omp for` and the parallel region.
AllAtBarrier == \A w \in Workers : wpc[w] = "barrier"

\* ------------------------------------------------------------- main()
Init ==
    /\ pc = "build"
    /\ size \in 0 .. MaxSize
    /\ curves = <<>>
    /\ k = 0
    /\ out = <<>>
    /\ circles = <<>>
    /\ radius_sum = 0
    /\ wpc = [w \in Workers |-> "idle"]
    /\ wi = [w \in Workers |-> 0]
    /\ reg = [w \in Workers |-> 0]
    /\ visits = <<>>
    /\ exit_code = <<>>
    /\ rcurve = <<>>
    /\ rvalue = <<>>

\* for (int i = 0; i < size; ++i) curves.push_back(make_unique<...>(...))
Build ==
    /\ pc = "build"
    /\ k < size
    /\ \E c \in BuildChoices : curves' = Append(curves, c)
    /\ k' = k + 1
    /\ UNCHANGED <<pc, size, out, circles, radius_sum, wpc, wi, reg, visits,
                   exit_code, rcurve, rvalue>>

BuildEnd ==
    /\ pc = "build"
    /\ ~(k < size)
    /\ pc' = "report"
    /\ k' = 0
    /\ UNCHANGED <<size, curves, out, circles, radius_sum, wpc, wi, reg,
                   visits, exit_code, rcurve, rvalue>>

\* for (auto& curve : curves): description, point, derivative, blank line
Report ==
    /\ pc = "report"
    /\ k < Len(curves)
    /\ out' = Append(out, [line |-> "curve", index |-> k,
                           info |-> At(curves, k)])
    /\ k' = k + 1
    /\ UNCHANGED <<pc, size, curves, circles, radius_sum, wpc, wi, reg,
                   visits, exit_code, rcurve, rvalue>>

ReportEnd ==
    /\ pc = "report"
    /\ ~(k < Len(curves))
    /\ pc' = "filter"
    /\ k' = 0
    /\ UNCHANGED <<size, curves, out, circles, radius_sum, wpc, wi, reg,
                   visits, exit_code, rcurve, rvalue>>

\* the filter taking the object out of the collection (std::move of the
\* unique_ptr) instead of borrowing a pointer
FilterStepMove ==
    /\ pc = "filter"
    /\ k < Len(curves)
    /\ IF IsCircle(At(curves, k))
       THEN /\ circles' = Append(circles, k)
            /\ curves' = [curves EXCEPT ![k + 1] = [kind |-> "moved-from"]]
       ELSE UNCHANGED <<circles, curves>>
    /\ k' = k + 1
    /\ UNCHANGED <<pc, size, out, radius_sum, wpc, wi, reg, visits,
                   exit_code, rcurve, rvalue>>

\* for (const auto& curve : curves) if (dynamic_cast<Circle*>(...)) push_back
FilterStep ==
    /\ pc = "filter"
    /\ k < Len(curves)
    /\ circles' = IF IsCircle(At(curves, k)) THEN Append(circles, k)
                                              ELSE circles
    /\ k' = k + 1
    /\ UNCHANGED <<pc, size, curves, out, radius_sum, wpc, wi, reg, visits,
                   exit_code, rcurve, rvalue>>

FilterEnd ==
    /\ pc = "filter"
    /\ ~(k < Len(curves))
    /\ pc' = "sort"
    /\ k' = 0
    /\ UNCHANGED <<size, curves, out, circles, radius_sum, wpc, wi, reg,
                   visits, exit_code, rcurve, rvalue>>

\* std::sort(circles.begin(), circles.end(), comp)
Sort ==
    /\ pc = "sort"
    /\ circles' = StdSort(circles)
    /\ pc' = "fork"
    /\ UNCHANGED <<size, curves, k, out, radius_sum, wpc, wi, reg, visits,
                   exit_code, rcurve, rvalue>>

\* double radius_sum{}; omp_set_num_threads(4); #pragma omp parallel /
\* #pragma omp for: the team starts, every thread gets its private i and
\* its chunk of [0, circles.size())
Fork ==
    /\ pc = "fork"
    /\ radius_sum' = 0
    /\ wi' = [w \in Workers |-> ChunkStart(w, Len(circles))]
    /\ wpc' = [w \in Workers |->
                 IF ChunkStart(w, Len(circles)) < ChunkEnd(w, Len(circles))
                 THEN "load" ELSE "barrier"]
    /\ reg' = [w \in Workers |-> 0]
    /\ visits' = [i \in 0 .. (Len(circles) - 1) |-> <<>>]
    /\ pc' = "parallel"
    /\ UNCHANGED <<size, curves, k, out, circles, exit_code, rcurve, rvalue>>

\* radius_sum += ...: the load of the shared radius_sum
WorkerLoad(w) ==
    /\ wpc[w] = "load"
    /\ reg' = [reg EXCEPT ![w] = radius_sum]
    /\ wpc' = [wpc EXCEPT ![w] = "store"]
    /\ UNCHANGED <<pc, size, curves, k, out, circles, radius_sum, wi, visits,
                   exit_code, rcurve, rvalue>>

\* radius_sum += circles[i]->radius(): the add and the store, then ++i and
\* the loop test against the end of the thread's chunk
WorkerStore(w) ==
    /\ wpc[w] = "store"
    /\ radius_sum' = reg[w] + radius(At(curves, At(circles, wi[w])))
    /\ visits' = [visits EXCEPT ![wi[w]] = Append(@, w)]
    /\ wi' = [wi EXCEPT ![w] = @ + 1]
    /\ reg' = [reg EXCEPT ![w] = 0]
    /\ wpc' = [wpc EXCEPT ![w] =
                 IF wi[w] + 1 < ChunkEnd(w, Len(circles)) THEN "load"
                                                          ELSE "barrier"]
    /\ UNCHANGED <<pc, size, curves, k, out, circles, exit_code, rcurve,
                   rvalue>>

\* the master leaving the parallel region without waiting at the barrier
JoinEarly ==
    /\ pc = "parallel"
    /\ pc' = "print"
    /\ UNCHANGED <<size, curves, k, out, circles, radius_sum, wpc, wi, reg,
                   visits, exit_code, rcurve, rvalue>>

\* the closing brace of the parallel region: all threads have arrived, the
\* team is dissolved and the initial thread goes on alone
Join ==
    /\ pc = "parallel"
    /\ AllAtBarrier
    /\ wpc' = [w \in Workers |-> "joined"]
    /\ pc' = "print"
    /\ UNCHANGED <<size, curves, k, out, circles, radius_sum, wi, reg,
                   visits, exit_code, rcurve, rvalue>>

\* std::cout << "Total sum of radii of the circles: " << radius_sum
PrintSum ==
    /\ pc = "print"
    /\ out' = Append(out, [line |-> "sum", value |-> radius_sum])
    /\ pc' = "return"
    /\ UNCHANGED <<size, curves, k, circles, radius_sum, wpc, wi, reg,
                   visits, exit_code, rcurve, rvalue>>

\* return 0;
Return ==
    /\ pc = "return"
    /\ exit_code' = <<0>>
    /\ pc' = "done"
    /\ UNCHANGED <<size, curves, k, out, circles, radius_sum, wpc, wi, reg,
                   visits, rcurve, rvalue>>

Next ==
    \/ Build
    \/ BuildEnd
    \/ Report
    \/ ReportEnd
    \/ FilterStep
    \/ FilterEnd
    \/ Sort
    \/ Fork
    \/ \E w \in Workers : WorkerLoad(w)
    \/ \E w \in Workers : WorkerStore(w)
    \/ Join
    \/ PrintSum
    \/ Return

Spec == Init /\ [][Next]_vars

\* Fair scheduling: a step that stays possible is eventually taken.
FairSpec == Spec /\ WF_vars(Next)

\* ------------------------------------------------------------- radius()
\* radius() called on one curve with parameters drawn from Params.
InitRadius ==
    /\ pc = "probe"
    /\ size = 0
    /\ curves = <<>>
    /\ k = 0
    /\ out = <<>>
    /\ circles = <<>>
    /\ radius_sum = 0
    /\ wpc = [w \in Workers |-> "idle"]
    /\ wi = [w \in Workers |-> 0]
    /\ reg = [w \in Workers |-> 0]
    /\ visits = <<>>
    /\ exit_code = <<>>
    /\ rcurve \in {<<c>> : c \in ProbeCurves}
    /\ rvalue = <<>>

CallRadius ==
    /\ pc = "probe"
    /\ rvalue = <<>>
    /\ rvalue' = <<radius(rcurve[1])>>
    /\ UNCHANGED <<mainVars, rcurve>>

NextRadius == CallRadius

SpecRadius == InitRadius /\ [][NextRadius]_vars

\* ------------------------------------------------------------- properties
\* helpers of the properties below
Indices(s) == 0 .. (Len(s) - 1)

RECURSIVE SeqSum(_)
\* the sequential sum of radius() over a subview
SeqSum(s) == IF s = <<>> THEN 0
             ELSE radius(At(curves, Head(s))) + SeqSum(Tail(s))

Count(s, x) == Cardinality({j \in 1 .. Len(s) : s[j] = x})

IsPermutation(s, t) ==
    /\ Len(s) = Len(t)
    /\ \A j \in 1 .. Len(s) : Count(s, s[j]) = Count(t, s[j])

NonDecreasing(s) ==
    \A j \in 1 .. (Len(s) - 1) :
        radius(At(curves, s[j])) <= radius(At(curves, s[j + 1]))

CircleIndices == {i \in Indices(curves) : At(curves, i).kind = "Circle"}

AfterParallel == pc \in {"print", "return", "done"}

Rank(p) ==
    CASE p = "build" -> 0 [] p = "report" -> 1 [] p = "filter" -> 2
      [] p = "sort" -> 3 [] p = "fork" -> 4 [] p = "parallel" -> 5
      [] p = "print" -> 6 [] p = "return" -> 7 [] p = "done" -> 8

\* C1: after the parallel region radius_sum equals the sequential sum of
\* radius() over the Circle subview, for every collection and interleaving.
C1_SumIsSequentialSum == AfterParallel => radius_sum = SeqSum(circles)

\* C2: no two threads are at once between their load of radius_sum and
\* their store to it.
C2_NoConcurrentReadModifyWrite ==
    \A w1 \in Workers : \A w2 \in Workers :
        (w1 # w2) => ~(wpc[w1] = "store" /\ wpc[w2] = "store")

\* C3: when the filter has finished, the subview refers to exactly the
\* entries whose runtime type is Circle, each once, in collection order;
\* its size is the number of Circles and every element's radius() is the
\* value the Circle was constructed with.
C3_FilterSelectsCircles ==
    (pc = "sort") =>
        /\ \A j \in 1 .. Len(circles) :
              /\ circles[j] \in Indices(curves)
              /\ At(curves, circles[j]).kind = "Circle"
              /\ radius(At(curves, circles[j])) = At(curves, circles[j]).radius_
        /\ \A i \in CircleIndices : Count(circles, i) = 1
        /\ \A j \in 1 .. (Len(circles) - 1) : circles[j] < circles[j + 1]
        /\ Len(circles) = Cardinality(CircleIndices)

C3_Witness ==
    /\ pc = "sort"
    /\ Len(circles) >= 2
    /\ \E i \in Indices(curves) : \E j \in Indices(curves) :
          /\ At(curves, i).kind = "Circle"
          /\ At(curves, j).kind = "Ellipse"
          /\ radius(At(curves, i)) = radius(At(curves, j))
    /\ \E i \in Indices(curves) : At(curves, i).kind = "Helix"

\* C4: the sort step turns the filter's output into a permutation of it
\* whose radius() values are non-decreasing.
C4_SortPermutesAndOrders ==
    [][(pc = "sort" /\ pc' = "fork") =>
          /\ IsPermutation(circles, circles')
          /\ NonDecreasing(circles')]_vars

C4_Witness ==
    /\ pc = "fork"
    /\ Len(circles) >= 3
    /\ \E j \in 1 .. (Len(circles) - 1) : circles[j] > circles[j + 1]
    /\ \E j \in 1 .. (Len(circles) - 1) :
          radius(At(curves, circles[j])) < radius(At(curves, circles[j + 1]))

\* C5: radius() is r for Circle(r), the larger of rx and ry for
\* Ellipse(rx, ry), and r whatever the step for Helix(r, step).
C5_RadiusPerVariant ==
    (rvalue # <<>>) =>
        LET c == rcurve[1]
            v == rvalue[1]
        IN  /\ c.kind = "Circle" => v = c.radius_
            /\ c.kind = "Ellipse" =>
                  /\ v \in {c.radius_x_, c.radius_y_}
                  /\ v >= c.radius_x_
                  /\ v >= c.radius_y_
            /\ c.kind = "Helix" =>
                  /\ v = c.radius_
                  /\ \A s \in Params : radius(Helix(c.radius_, s)) = v

C5_Witness ==
    /\ rvalue # <<>>
    /\ rcurve[1].kind = "Ellipse"
    /\ rcurve[1].radius_x_ < rcurve[1].radius_y_
    /\ rvalue[1] = rcurve[1].radius_y_

\* C6: sorting twice gives what sorting once gives: before the sort, the
\* sort of the sorted subview is the sorted subview; after it, sorting the
\* subview again leaves it as it is, ties included.
C6_SortIdempotent ==
    /\ (pc = "sort") => StdSort(StdSort(circles)) = StdSort(circles)
    /\ (Rank(pc) >= 4) => StdSort(circles) = circles

C6_Witness ==
    /\ pc = "fork"
    /\ \E j \in 1 .. (Len(circles) - 1) :
          /\ circles[j] # circles[j + 1]
          /\ radius(At(curves, circles[j])) = radius(At(curves, circles[j + 1]))
    /\ \E j \in 1 .. (Len(circles) - 1) : circles[j] > circles[j + 1]

\* C7: once the collection is built no step changes it; the sort changes
\* only the order of the references in the subview; the parallel region
\* changes neither the collection, nor the subview, nor the output.
C7_Frame ==
    [][/\ (pc # "build") => curves' = curves
       /\ (pc = "sort") =>
             /\ IsPermutation(circles, circles')
             /\ UNCHANGED <<curves, radius_sum, out>>
       /\ (pc = "parallel") => UNCHANGED <<curves, circles, out>>]_vars

C7_Witness ==
    /\ pc = "done"
    /\ Len(curves) > Len(circles)
    /\ \E j \in 1 .. (Len(circles) - 1) : circles[j] > circles[j + 1]
    /\ radius_sum > 0

\* C8: the steps run in the order build, report, filter, sort, parallel
\* reduce, print; the reporter has emitted one block per curve in
\* collection order before the filter starts; the sum line is emitted once,
\* last, and only when every thread has finished its iterations.
C8_OutputInv ==
    /\ \A j \in 1 .. Len(out) :
          \/ /\ out[j].line = "curve"
             /\ j <= Len(curves)
             /\ out[j].index = j - 1
             /\ out[j].info = curves[j]
          \/ /\ out[j].line = "sum"
             /\ j = Len(out)
             /\ j = Len(curves) + 1
             /\ Rank(pc) >= 7
             /\ \A w \in Workers :
                   /\ wpc[w] \notin {"load", "store"}
                   /\ wi[w] = ChunkEnd(w, Len(circles))
    /\ (Rank(pc) >= 2) => /\ Len(curves) = size
                          /\ Len(out) >= Len(curves)
    /\ (Rank(pc) <= 1) => circles = <<>>
    /\ (pc = "done") => /\ Len(out) = Len(curves) + 1
                        /\ out[Len(out)].line = "sum"

C8_PipelineOrder ==
    /\ pc = "build"
    /\ [][Rank(pc') \in {Rank(pc), Rank(pc) + 1}]_vars
    /\ []C8_OutputInv

C8_Witness ==
    /\ pc = "done"
    /\ Len(curves) >= 2
    /\ Len(circles) >= 2
    /\ Len(out) = Len(curves) + 1

\* C9: the indices of the subview are partitioned over the threads: each
\* thread counts with its own i inside its chunk, the loop body runs on an
\* index only in the thread whose chunk holds it and at most once, and
\* when the region is left it has run on every index exactly once.
C9_Partition ==
    (Rank(pc) >= 5) =>
        /\ DOMAIN visits = Indices(circles)
        /\ \A w \in Workers :
              /\ ChunkStart(w, Len(circles)) <= wi[w]
              /\ wi[w] <= ChunkEnd(w, Len(circles))
              /\ (wpc[w] \in {"load", "store"}) => wi[w] \in Indices(circles)
        /\ \A i \in Indices(circles) :
              /\ Len(visits[i]) <= 1
              /\ \A w \in Workers :
                    (visits[i] = <<w>>) <=>
                        (ChunkStart(w, Len(circles)) <= i /\ i < wi[w])
        /\ AfterParallel => \A i \in Indices(circles) : Len(visits[i]) = 1

C9_Witness ==
    /\ pc = "done"
    /\ Len(circles) > num_threads
    /\ \A i \in Indices(circles) : Len(visits[i]) = 1
    /\ \E i \in Indices(circles) : \E j \in Indices(circles) :
          visits[i] # visits[j]

\* C10: under fair scheduling main eventually returns 0 with the whole
\* team joined; the exit code is never anything but 0, and no thread is
\* running once main has returned.
C10_Terminated ==
    /\ pc = "done"
    /\ exit_code = <<0>>
    /\ \A w \in Workers : wpc[w] = "joined"

C10_TerminatesWithZero ==
    /\ <>C10_Terminated
    /\ [](exit_code \in {<<>>, <<0>>})
    /\ []((pc = "done") => C10_Terminated)

C10_Witness ==
    /\ C10_Terminated
    /\ Len(circles) > num_threads
    /\ Len(out) = Len(curves) + 1

=============================================================================
